---- MODULE Spec2Model ----
(***************************************************************************)
(* PaginatorSession (ext/paginator.py): one session object, the coroutine  *)
(* run() that drives it, the user who reacts and types, and the host that  *)
(* may call add_page and close while run() is suspended in an await.       *)
(*                                                                         *)
(* An action is the code between two awaits of run(): the task is          *)
(* cooperative, so nothing interleaves inside it.  pc names the await the  *)
(* task is suspended in.  Every call on the chat transport nondeterminis-  *)
(* tically succeeds or raises.                                             *)
(***************************************************************************)
EXTENDS Integers, Sequences, FiniteSets, TLC

\* ---- bounds of the model
MaxPages == 3      \* a session never holds more pages than this
MaxReacts == 3     \* accepted control reactions per run
MaxCloses == 1     \* close() calls made by the host

\* ---- values
NoMessage == 0                      \* self.base = None
ForeignMessage == 0 - 1             \* a message that was never this session's
Invoker == "invoker"                \* ctx.author
Users == {"invoker", "other"}
Channels == {"here", "elsewhere"}   \* ctx.channel is "here"
NoFooter == <<>>
HelpPage == 0 - 2                   \* shown: the help embed
Nothing == 0 - 1                    \* shown: no content yet

\* The keys of reaction_map, in insertion order.  The glyphs are named by
\* the callback they are mapped to:
\*   first = U+23EE, previous = U+25C0, close = U+23F9, next = U+25B6,
\*   last = U+23ED, ask = U+1F522, help = U+1F914
reaction_map == <<"first_page", "previous_page", "close", "next_page",
                  "last_page", "ask_for_page", "show_help_page">>
Keys == {reaction_map[i] : i \in 1..Len(reaction_map)}
Emojis == Keys \cup {"unmapped"}

\* Characters a typed message is made of.  "sup2" is U+00B2 (superscript
\* two): str.isdigit() is true of it and int() rejects it.
DecimalChars == {"0", "1", "2", "3", "4", "5"}
Contents == { <<>>, <<"0">>, <<"1">>, <<"2">>, <<"3">>, <<"4">>, <<"5">>,
              <<"0", "2">>, <<"1", "0">>, <<"sup2">>, <<"1", "sup2">>,
              <<"x">>, <<"2", "x">> }

DigitValue(c) ==
    CASE c = "0" -> 0 [] c = "1" -> 1 [] c = "2" -> 2
      [] c = "3" -> 3 [] c = "4" -> 4 [] c = "5" -> 5

\* str.isdigit(): non-empty, every character a digit (decimal or not)
isdigit(s) ==
    /\ Len(s) > 0
    /\ \A i \in 1..Len(s) : s[i] \in DecimalChars \cup {"sup2"}

ValueError == 0 - 1
RECURSIVE DecimalOf(_)
DecimalOf(s) ==
    IF Len(s) = 0 THEN 0
    ELSE 10 * DecimalOf(SubSeq(s, 1, Len(s) - 1)) + DigitValue(s[Len(s)])

\* int(msg.content): the decimal value, or ValueError
int(s) ==
    IF Len(s) > 0 /\ \A i \in 1..Len(s) : s[i] \in DecimalChars
    THEN DecimalOf(s)
    ELSE ValueError

VARIABLES
    pages,              \* self.pages: the footer of each page, in order
    running,            \* self.running
    base,               \* self.base: id of the displayed message
    current,            \* self.current
    page_num_enabled,   \* self.page_num_enabled
    paginating,         \* self.paginating: "unset" until run() assigns it
    pc,                 \* the await run() is suspended in
    frame,              \* "run": called from run(); "ask": inside ask_for_page
    ri,                 \* index in reaction_map of the add_reaction awaited
    reaction,           \* run()'s local: the emoji of the accepted reaction
    to_delete,          \* ask_for_page's local list
    inflight,           \* the event being dispatched to the pending wait_for
    sends,              \* transport: ctx.send(embed=page) calls made
    edits,              \* transport: base.edit calls made
    deleteRequests,     \* transport: base.delete() calls made
    attached,           \* transport: reactions the bot added to base
    shown,              \* transport: what base displays
    err,                \* the call whose exception ended run()
    closeRaised,        \* a close() of the host ended in AttributeError
    nReacts,            \* accepted reactions so far
    nCloses,            \* host close() calls so far
    closed_delete,      \* close(delete=True) was called on a running session
    heap,               \* the list objects: the one of the default argument
                        \* pages=[] and those the host passes as pages
    pages_of            \* for each session constructed, the list self.pages is

vars == <<pages, running, base, current, page_num_enabled, paginating, pc,
          frame, ri, reaction, to_delete, inflight, sends, edits,
          deleteRequests, attached, shown, err, closeRaised, nReacts, nCloses,
          closed_delete, heap, pages_of>>

NoEvent == [kind |-> "none", user |-> Invoker, message |-> NoMessage,
            emoji |-> "unmapped", channel |-> "here", content |-> <<>>]

ReactionEvent(u, m, e) ==
    [kind |-> "reaction", user |-> u, message |-> m, emoji |-> e,
     channel |-> "here", content |-> <<>>]

MessageEvent(u, c, s) ==
    [kind |-> "message", user |-> u, message |-> NoMessage,
     emoji |-> "unmapped", channel |-> c, content |-> s]

\* Sessions of the process, for what construction shares between them.
Sessions == {"s1", "s2"}

\* The list created once, when the def of __init__ is evaluated, for the
\* default argument pages=[]; and the lists the host passes as pages.
DefaultList == "default"
Lists == {DefaultList} \cup Sessions
NotConstructed == "none"
Embeds == {"A", "B"}

sessionVars == <<heap, pages_of>>

\* The awaits of run() and of what it calls.
Suspended == {"sp_send", "sp_react", "sp_edit", "wait", "clear", "remove",
              "help_edit", "delete", "ask_prompt", "ask_wait", "ask_took",
              "ask_invalid", "ask_sleep", "ask_delete"}

Init ==
    /\ \E n \in 0..MaxPages : pages = [i \in 1..n |-> NoFooter]
    /\ running = FALSE
    /\ base = NoMessage
    /\ current = 0
    /\ page_num_enabled \in BOOLEAN
    /\ paginating = "unset"
    /\ pc = "new"
    /\ frame = "run"
    /\ ri = 0
    /\ reaction = "unmapped"
    /\ to_delete = <<>>
    /\ inflight = NoEvent
    /\ sends = 0
    /\ edits = 0
    /\ deleteRequests = 0
    /\ attached = <<>>
    /\ shown = Nothing
    /\ err = "none"
    /\ closeRaised = FALSE
    /\ nReacts = 0
    /\ nCloses = 0
    /\ closed_delete = FALSE
    /\ heap = [l \in Lists |-> <<>>]
    /\ pages_of = [s \in Sessions |-> NotConstructed]

\* ---- pure helpers

valid_page_no_lower_bound(index) ==
    ~(index + 1 > Len(pages))

valid_page_off_by_one(index) ==
    ~(index < 0 \/ index > Len(pages))

valid_page(index) ==
    ~(index < 0 \/ index + 1 > Len(pages))

react_check_attached_only(ev) ==
    IF ev.user # Invoker THEN FALSE
    ELSE IF ev.message # base THEN FALSE
    ELSE \E i \in 1..Len(attached) : attached[i] = ev.emoji

react_check_any_user(ev) ==
    IF ev.message # base THEN FALSE
    ELSE ev.emoji \in Keys

react_check(ev) ==
    IF ev.user # Invoker THEN FALSE
    ELSE IF ev.message # base THEN FALSE
    ELSE ev.emoji \in Keys

message_check(ev) ==
    /\ ev.user = Invoker
    /\ ev.channel = "here"
    /\ isdigit(ev.content)

\* show_page's loop over reaction_map.keys(): the glyph at index i is
\* skipped when there are exactly two pages and it is first or last.
Skipped(i) ==
    Len(pages) = 2 /\ reaction_map[i] \in {"first_page", "last_page"}

\* The next index after i whose glyph is not skipped; 0 when the loop ends.
NextReaction(i) ==
    LET later == {j \in (i + 1)..Len(reaction_map) : ~Skipped(j)}
    IN IF later = {} THEN 0
       ELSE CHOOSE j \in later : \A k \in later : j <= k

\* text of the footer: 'Page {index+1}/{len(self.pages)}'
Footer_zero_based(index) == <<index, Len(pages)>>

Footer(index) == <<index + 1, Len(pages)>>

\* ---- the control flow shared by the actions

\* Where the task goes when the callback it awaited returns.  In frame
\* "run" that is the loop condition of run() (while self.running), read
\* with r, the value self.running has then; in frame "ask" it is the
\* cleanup of ask_for_page (asyncio.sleep(5)).
Resume(k, r) ==
    /\ frame' = k
    /\ pc' = IF k = "ask" THEN "ask_sleep"
             ELSE IF r THEN "wait" ELSE "done"

\* An exception leaves run(): no handler encloses the call.
Raise(call) ==
    /\ pc' = "raised"
    /\ err' = call
    /\ UNCHANGED frame

show_page_keeps_cursor(index, k) ==
    IF ~valid_page(index)
    THEN /\ Resume(k, running)
         /\ UNCHANGED <<pages, current, running, sends, edits>>
    ELSE /\ UNCHANGED current
         /\ pages' = IF page_num_enabled
                     THEN [pages EXCEPT ![index + 1] = Footer(index)]
                     ELSE pages
         /\ frame' = k
         /\ IF running
            THEN /\ pc' = "sp_edit"
                 /\ edits' = edits + 1
                 /\ UNCHANGED <<running, sends>>
            ELSE /\ running' = TRUE
                 /\ pc' = "sp_send"
                 /\ sends' = sends + 1
                 /\ UNCHANGED edits

\* show_page(index) up to its first await.  Constrains pages, current,
\* running, sends, edits, pc and frame.
show_page(index, k) ==
    IF ~valid_page(index)
    THEN /\ Resume(k, running)
         /\ UNCHANGED <<pages, current, running, sends, edits>>
    ELSE /\ current' = index
         /\ pages' = IF page_num_enabled
                     THEN [pages EXCEPT ![index + 1] = Footer(index)]
                     ELSE pages
         /\ frame' = k
         /\ IF running
            THEN /\ pc' = "sp_edit"
                 /\ edits' = edits + 1
                 /\ UNCHANGED <<running, sends>>
            ELSE /\ running' = TRUE
                 /\ pc' = "sp_send"
                 /\ sends' = sends + 1
                 /\ UNCHANGED edits

\* ---- run(): first render

\* run() is called: if not self.running: await self.show_page(0)
Run ==
    /\ UNCHANGED sessionVars
    /\ pc = "new"
    /\ IF ~running
       THEN show_page(0, "run")
       ELSE /\ Resume("run", running)
            /\ UNCHANGED <<pages, current, running, sends, edits>>
    /\ UNCHANGED <<base, page_num_enabled, paginating, ri, reaction,
                   to_delete, inflight, deleteRequests, attached, shown,
                   err, closeRaised, nReacts, nCloses, closed_delete>>

\* self.base = await self.ctx.send(embed=page) returns or raises
SendReturns ==
    /\ UNCHANGED sessionVars
    /\ pc = "sp_send"
    /\ inflight = NoEvent
    /\ \/ /\ base' = sends
          /\ shown' = current
          /\ attached' = <<>>
          /\ ri' = NextReaction(0)
          /\ pc' = "sp_react"
          /\ UNCHANGED <<err, frame>>
       \/ /\ Raise("send")
          /\ UNCHANGED <<base, shown, attached, ri>>
    /\ UNCHANGED <<pages, running, current, page_num_enabled, paginating,
                   reaction, to_delete, inflight, sends, edits, deleteRequests,
                   closeRaised, nReacts, nCloses, closed_delete>>

\* await self.base.add_reaction(reaction) returns or raises
AddReactionReturns ==
    /\ UNCHANGED sessionVars
    /\ pc = "sp_react"
    /\ inflight = NoEvent
    /\ \/ /\ attached' = Append(attached, reaction_map[ri])
          /\ IF NextReaction(ri) # 0
             THEN /\ ri' = NextReaction(ri)
                  /\ UNCHANGED <<pc, frame>>
             ELSE /\ ri' = 0
                  /\ Resume(frame, running)
          /\ UNCHANGED err
       \/ /\ Raise("add_reaction")
          /\ UNCHANGED <<attached, ri>>
    /\ UNCHANGED <<pages, running, base, current, page_num_enabled,
                   paginating, reaction, to_delete, inflight, sends, edits,
                   deleteRequests, shown, closeRaised, nReacts, nCloses,
                   closed_delete>>

\* await self.base.edit(embed=page) in show_page returns or raises
EditReturns ==
    /\ UNCHANGED sessionVars
    /\ pc = "sp_edit"
    /\ inflight = NoEvent
    /\ \/ /\ shown' = current
          /\ Resume(frame, running)
          /\ UNCHANGED err
       \/ /\ Raise("edit")
          /\ UNCHANGED shown
    /\ UNCHANGED <<pages, running, base, current, page_num_enabled,
                   paginating, ri, reaction, to_delete, inflight, sends, edits,
                   deleteRequests, attached, closeRaised, nReacts, nCloses,
                   closed_delete>>

\* ---- run(): the reaction loop

\* A user adds a reaction while wait_for('reaction_add') is pending.  The
\* model stops producing reactions once MaxReacts were accepted.
UserReacts ==
    /\ UNCHANGED sessionVars
    /\ pc = "wait"
    /\ inflight = NoEvent
    /\ nReacts < MaxReacts
    /\ \E u \in Users, m \in {base, ForeignMessage}, e \in Emojis :
          inflight' = ReactionEvent(u, m, e)
    /\ UNCHANGED <<pages, running, base, current, page_num_enabled,
                   paginating, pc, frame, ri, reaction, to_delete, sends, edits,
                   deleteRequests, attached, shown, err, closeRaised, nReacts,
                   nCloses, closed_delete>>

\* wait_for applies react_check to the event: an accepted one ends the
\* wait and run() goes on to remove_reaction; any other is dropped.
ReactionDispatched ==
    /\ UNCHANGED sessionVars
    /\ pc = "wait"
    /\ inflight.kind = "reaction"
    /\ inflight' = NoEvent
    /\ IF react_check(inflight)
       THEN /\ reaction' = inflight.emoji
            /\ pc' = "remove"
            /\ nReacts' = nReacts + 1
       ELSE UNCHANGED <<reaction, pc, nReacts>>
    /\ UNCHANGED <<pages, running, base, current, page_num_enabled,
                   paginating, frame, ri, to_delete, sends, edits, deleteRequests,
                   attached, shown, err, closeRaised, nCloses, closed_delete>>

\* asyncio.TimeoutError from the outer wait_for: self.paginating = False,
\* then await self.base.clear_reactions()
WaitTimeout ==
    /\ UNCHANGED sessionVars
    /\ pc = "wait"
    /\ inflight = NoEvent
    /\ paginating' = "False"
    /\ pc' = "clear"
    /\ UNCHANGED <<pages, running, base, current, page_num_enabled, frame,
                   ri, reaction, to_delete, inflight, sends, edits, deleteRequests,
                   attached, shown, err, closeRaised, nReacts, nCloses,
                   closed_delete>>

ClearReturns_no_break ==
    /\ UNCHANGED sessionVars
    /\ pc = "clear"
    /\ \/ attached' = <<>>
       \/ UNCHANGED attached
    /\ pc' = IF running THEN "wait" ELSE "done"
    /\ UNCHANGED <<pages, running, base, current, page_num_enabled,
                   paginating, frame, ri, reaction, to_delete, inflight,
                   sends, edits, deleteRequests, shown, err, closeRaised,
                   nReacts, nCloses, closed_delete>>

\* clear_reactions returns or raises; except: pass; finally: break
ClearReturns ==
    /\ UNCHANGED sessionVars
    /\ pc = "clear"
    /\ \/ attached' = <<>>
       \/ UNCHANGED attached
    /\ pc' = "done"
    /\ UNCHANGED <<pages, running, base, current, page_num_enabled,
                   paginating, frame, ri, reaction, to_delete, inflight,
                   sends, edits, deleteRequests, shown, err, closeRaised, nReacts,
                   nCloses, closed_delete>>

\* close(delete) up to its return.  With delete it evaluates
\* self.base.delete(): a request on the transport, or an AttributeError
\* when self.base is None.
close(delete) ==
    /\ running' = FALSE
    /\ closed_delete' = (closed_delete \/ (running /\ delete))
    /\ deleteRequests' = IF delete /\ base # NoMessage
                         THEN deleteRequests + 1
                         ELSE deleteRequests

\* remove_reaction returns or raises (except: pass); then
\* show_page = self.reaction_map.get(reaction.emoji); await show_page()
RemoveReturns ==
    /\ UNCHANGED sessionVars
    /\ pc = "remove"
    /\ CASE reaction = "first_page" ->
              /\ show_page(0, "run")
              /\ UNCHANGED <<to_delete, deleteRequests, closed_delete, err>>
         [] reaction = "previous_page" ->
              /\ show_page(current - 1, "run")
              /\ UNCHANGED <<to_delete, deleteRequests, closed_delete, err>>
         [] reaction = "next_page" ->
              /\ show_page(current + 1, "run")
              /\ UNCHANGED <<to_delete, deleteRequests, closed_delete, err>>
         [] reaction = "last_page" ->
              /\ show_page(Len(pages) - 1, "run")
              /\ UNCHANGED <<to_delete, deleteRequests, closed_delete, err>>
         [] reaction = "close" ->
              /\ close(TRUE)
              /\ IF base = NoMessage
                 THEN Raise("close")
                 ELSE pc' = "delete" /\ UNCHANGED <<frame, err>>
              /\ UNCHANGED <<pages, current, sends, edits, to_delete>>
         [] reaction = "ask_for_page" ->
              /\ to_delete' = <<>>
              /\ pc' = "ask_prompt"
              /\ frame' = "ask"
              /\ UNCHANGED <<pages, current, running, sends, edits, deleteRequests,
                             closed_delete, err>>
         [] reaction = "show_help_page" ->
              /\ pc' = "help_edit"
              /\ edits' = edits + 1
              /\ UNCHANGED <<pages, current, running, sends, frame,
                             to_delete, deleteRequests, closed_delete, err>>
    /\ UNCHANGED <<base, page_num_enabled, paginating, ri, reaction, inflight,
                   attached, shown, closeRaised, nReacts, nCloses>>

\* the coroutine self.base.delete() awaited by run() returns or raises
DeleteReturns ==
    /\ UNCHANGED sessionVars
    /\ pc = "delete"
    /\ \/ /\ Resume("run", running)
          /\ UNCHANGED err
       \/ Raise("delete")
    /\ UNCHANGED <<pages, running, base, current, page_num_enabled,
                   paginating, ri, reaction, to_delete, inflight, sends, edits,
                   deleteRequests, attached, shown, closeRaised, nReacts,
                   nCloses, closed_delete>>

\* await self.base.edit(embed=em) in show_help_page returns or raises
HelpEditReturns ==
    /\ UNCHANGED sessionVars
    /\ pc = "help_edit"
    /\ \/ /\ shown' = HelpPage
          /\ Resume("run", running)
          /\ UNCHANGED err
       \/ /\ Raise("help_edit")
          /\ UNCHANGED shown
    /\ UNCHANGED <<pages, running, base, current, page_num_enabled,
                   paginating, ri, reaction, to_delete, inflight, sends, edits,
                   deleteRequests, attached, closeRaised, nReacts, nCloses,
                   closed_delete>>

\* ---- ask_for_page

\* x = await self.ctx.send('What page do you want to go to?')
PromptReturns ==
    /\ UNCHANGED sessionVars
    /\ pc = "ask_prompt"
    /\ \/ /\ to_delete' = Append(to_delete, "prompt")
          /\ pc' = "ask_wait"
          /\ UNCHANGED <<err, frame>>
       \/ /\ Raise("prompt_send")
          /\ UNCHANGED to_delete
    /\ UNCHANGED <<pages, running, base, current, page_num_enabled,
                   paginating, ri, reaction, inflight, sends, edits, deleteRequests,
                   attached, shown, closeRaised, nReacts, nCloses,
                   closed_delete>>

\* Somebody sends a message while wait_for('message') is pending.
UserTypes ==
    /\ UNCHANGED sessionVars
    /\ pc = "ask_wait"
    /\ inflight = NoEvent
    /\ \E u \in Users, c \in Channels, s \in Contents :
          inflight' = MessageEvent(u, c, s)
    /\ UNCHANGED <<pages, running, base, current, page_num_enabled,
                   paginating, pc, frame, ri, reaction, to_delete, sends, edits,
                   deleteRequests, attached, shown, err, closeRaised, nReacts,
                   nCloses, closed_delete>>

\* wait_for applies message_check: a rejected message is dropped; an
\* accepted one ends the wait and ask_for_page runs its else branch:
\* page = int(msg.content), to_delete.append(msg), then show_page(page-1)
\* or the send of the invalid-page notice.
MessageDispatched ==
    /\ UNCHANGED sessionVars
    /\ pc = "ask_wait"
    /\ inflight.kind = "message"
    /\ inflight' = NoEvent
    /\ IF ~message_check(inflight)
       THEN UNCHANGED <<pages, current, running, sends, edits, pc, frame,
                        to_delete, err>>
       ELSE LET page == int(inflight.content) IN
            IF page = ValueError
            THEN /\ Raise("int")
                 /\ UNCHANGED <<pages, current, running, sends, edits, to_delete>>
            ELSE /\ to_delete' = Append(to_delete, "reply")
                 /\ UNCHANGED err
                 /\ IF page # 0 /\ page <= Len(pages)
                    THEN show_page(page - 1, "ask")
                    ELSE /\ pc' = "ask_invalid"
                         /\ UNCHANGED <<pages, current, running, sends, edits,
                                        frame>>
    /\ UNCHANGED <<base, page_num_enabled, paginating, ri, reaction,
                   deleteRequests, attached, shown, closeRaised, nReacts,
                   nCloses, closed_delete>>

\* asyncio.TimeoutError from wait_for('message', timeout=30.0):
\* x = await self.ctx.send('Took too long.')
AskTimeout ==
    /\ UNCHANGED sessionVars
    /\ pc = "ask_wait"
    /\ inflight = NoEvent
    /\ pc' = "ask_took"
    /\ UNCHANGED <<pages, running, base, current, page_num_enabled,
                   paginating, frame, ri, reaction, to_delete, inflight,
                   sends, edits, deleteRequests, attached, shown, err, closeRaised,
                   nReacts, nCloses, closed_delete>>

\* the send of 'Took too long.' returns (to_delete.append(x)) or raises
TookReturns ==
    /\ UNCHANGED sessionVars
    /\ pc = "ask_took"
    /\ \/ /\ to_delete' = Append(to_delete, "took_too_long")
          /\ pc' = "ask_sleep"
          /\ UNCHANGED <<err, frame>>
       \/ /\ Raise("took_send")
          /\ UNCHANGED to_delete
    /\ UNCHANGED <<pages, running, base, current, page_num_enabled,
                   paginating, ri, reaction, inflight, sends, edits, deleteRequests,
                   attached, shown, closeRaised, nReacts, nCloses,
                   closed_delete>>

\* the send of 'Invalid page given.' returns (to_delete.append(x)) or raises
InvalidReturns ==
    /\ UNCHANGED sessionVars
    /\ pc = "ask_invalid"
    /\ \/ /\ to_delete' = Append(to_delete, "invalid_page")
          /\ pc' = "ask_sleep"
          /\ UNCHANGED <<err, frame>>
       \/ /\ Raise("invalid_send")
          /\ UNCHANGED to_delete
    /\ UNCHANGED <<pages, running, base, current, page_num_enabled,
                   paginating, ri, reaction, inflight, sends, edits, deleteRequests,
                   attached, shown, closeRaised, nReacts, nCloses,
                   closed_delete>>

\* await asyncio.sleep(5) returns
SleepReturns ==
    /\ UNCHANGED sessionVars
    /\ pc = "ask_sleep"
    /\ pc' = "ask_delete"
    /\ UNCHANGED <<pages, running, base, current, page_num_enabled,
                   paginating, frame, ri, reaction, to_delete, inflight,
                   sends, edits, deleteRequests, attached, shown, err, closeRaised,
                   nReacts, nCloses, closed_delete>>

\* delete_messages(to_delete) returns or raises (except Exception: pass);
\* ask_for_page returns to the loop of run() and its list is dropped
BatchDeleteReturns ==
    /\ UNCHANGED sessionVars
    /\ pc = "ask_delete"
    /\ Resume("run", running)
    /\ to_delete' = <<>>
    /\ UNCHANGED <<pages, running, base, current, page_num_enabled,
                   paginating, ri, reaction, inflight, sends, edits,
                   deleteRequests, attached, shown, err, closeRaised, nReacts,
                   nCloses, closed_delete>>

\* ---- the host

\* add_page(embed) called by the host, before run() or while it is
\* suspended.  Anything but an Embed raises TypeError to the host and
\* changes no field of the session.
add_page ==
    /\ UNCHANGED sessionVars
    /\ pc \in Suspended \cup {"new"}
    /\ inflight = NoEvent
    /\ \E isEmbed \in BOOLEAN :
          IF isEmbed
          THEN /\ Len(pages) < MaxPages
               /\ pages' = Append(pages, NoFooter)
          ELSE UNCHANGED pages
    /\ UNCHANGED <<running, base, current, page_num_enabled, paginating, pc,
                   frame, ri, reaction, to_delete, inflight, sends, edits,
                   deleteRequests, attached, shown, err, closeRaised, nReacts,
                   nCloses, closed_delete>>

\* close(delete) called by the host, before run() or while it is suspended
HostClose ==
    /\ UNCHANGED sessionVars
    /\ pc \in Suspended \cup {"new"}
    /\ inflight = NoEvent
    /\ nCloses < MaxCloses
    /\ nCloses' = nCloses + 1
    /\ \E delete \in BOOLEAN :
          /\ close(delete)
          /\ closeRaised' = (closeRaised \/ (delete /\ base = NoMessage))
    /\ UNCHANGED <<pages, base, current, page_num_enabled, paginating, pc,
                   frame, ri, reaction, to_delete, inflight, sends, edits, attached,
                   shown, err, nReacts>>

Next ==
    \/ Run
    \/ SendReturns
    \/ AddReactionReturns
    \/ EditReturns
    \/ UserReacts
    \/ ReactionDispatched
    \/ WaitTimeout
    \/ ClearReturns
    \/ RemoveReturns
    \/ DeleteReturns
    \/ HelpEditReturns
    \/ PromptReturns
    \/ UserTypes
    \/ MessageDispatched
    \/ AskTimeout
    \/ TookReturns
    \/ InvalidReturns
    \/ SleepReturns
    \/ BatchDeleteReturns
    \/ add_page
    \/ HostClose

Spec == Init /\ [][Next]_vars

\* ---- claims

\* C1: with at least one page, the cursor is an index of pages in every
\* reachable state: 0 <= current < len(pages).
CursorInRange ==
    Len(pages) >= 1 => (0 <= current /\ current < Len(pages))

\* C1 witness: the loop waits with the cursor moved to the last of several
\* pages by an accepted reaction.
CursorAtLastPage ==
    /\ pc = "wait"
    /\ nReacts >= 1
    /\ Len(pages) >= 2
    /\ current = Len(pages) - 1

\* C2: the page content is sent at most once in the life of a session;
\* every later show_page edits the message that send created.
OneDisplayMessage ==
    sends <= 1

\* C3: when run() has returned because the outer wait timed out, running
\* is false.
TimeoutCloses ==
    (pc = "done" /\ paginating = "False") => ~running

\* C4: run() never ends with the exception of a cosmetic or cleanup call
\* (add_reaction on first render, remove_reaction, clear_reactions, the
\* delete of the displayed message).
CosmeticFailuresCaught ==
    ~(pc = "raised" /\ err \in {"add_reaction", "delete", "remove_reaction",
                                "clear_reactions"})

\* C5: no exception leaves ask_for_page: run() never ends with an exception
\* raised while it is inside the page-jump dialog.
AskNeverPropagates ==
    ~(pc = "raised" /\ frame = "ask")

\* C6: an accepted numeric reply k navigates to index k-1 by an edit of
\* the displayed message when 1 <= k <= len(pages), and otherwise leaves
\* the cursor and the displayed message as they are and sends the
\* invalid-page notice.
JumpNavigates ==
    [][ (/\ pc = "ask_wait"
         /\ inflight.kind = "message"
         /\ message_check(inflight)
         /\ int(inflight.content) # ValueError)
        => LET k == int(inflight.content) IN
           IF 1 <= k /\ k <= Len(pages)
           THEN /\ current' = k - 1
                /\ pc' = "sp_edit"
                /\ base' = base
           ELSE /\ pc' = "ask_invalid"
                /\ UNCHANGED <<current, base, shown>> ]_vars

\* C7: when the wait for the reply times out, the 'took too long' notice
\* is sent and recorded, the cursor and the displayed message stay as they
\* are, and the dialog goes on to its cleanup.
JumpTimeout ==
    [][ /\ (pc = "ask_wait" /\ inflight = NoEvent /\ pc' # "ask_wait")
            => (pc' = "ask_took" /\ UNCHANGED <<current, base, shown>>)
        /\ (pc = "ask_took" /\ pc' # "ask_took")
            => /\ pc' = "ask_sleep"
               /\ to_delete' = Append(to_delete, "took_too_long")
               /\ UNCHANGED <<current, base, shown>> ]_vars

\* The reactions the first render is to attach for a page count of n.
ExpectedReactions(n) ==
    IF n = 2
    THEN <<"previous_page", "close", "next_page", "ask_for_page",
           "show_help_page">>
    ELSE <<"first_page", "previous_page", "close", "next_page", "last_page",
           "ask_for_page", "show_help_page">>

\* C8: when the render of a new message ends, the reactions attached to it
\* are all seven glyphs in map order, or the five other than first and
\* last when there are exactly two pages.
FirstRenderReactions ==
    [][ (pc = "sp_react" /\ pc' # "sp_react")
        => attached' = ExpectedReactions(Len(pages')) ]_vars

\* C9: a reaction ends the outer wait only if it is by the invoker, on the
\* displayed message, with a glyph of the control map; any other reaction
\* leaves the cursor, running, the displayed message and the wait as they
\* are.
ReactionFilter ==
    [][ inflight.kind = "reaction"
        => \/ /\ inflight.user = Invoker
              /\ inflight.message = base
              /\ inflight.emoji \in Keys
           \/ /\ pc' = "wait"
              /\ UNCHANGED <<current, running, base, shown, pages, sends,
                             deleteRequests, reaction>> ]_vars

\* C9 witness: a reaction by another user, on the displayed message and
\* with a mapped glyph, is being dispatched to the pending wait.
ForeignReactionDispatched ==
    /\ pc = "wait"
    /\ inflight.kind = "reaction"
    /\ inflight.user # Invoker
    /\ inflight.message = base
    /\ inflight.emoji \in Keys

\* C10: a close(delete=True) on a running session that displays a message
\* leaves running false and requests the deletion of that message exactly
\* once, and after it the loop starts no further reaction wait.
CloseDeleteFinal ==
    [][ /\ (running /\ base # NoMessage /\ ~closed_delete /\ closed_delete')
            => (~running' /\ deleteRequests' = deleteRequests + 1)
        /\ (closed_delete /\ pc # "wait") => pc' # "wait" ]_vars

\* ---- the scenario of C11: run(), then next-page reactions and one stop

\* The invoker reacts on the displayed message with the next-page or the
\* stop glyph; nobody else reacts, the host makes no call and the outer
\* wait does not time out.
ScenarioReacts ==
    /\ UNCHANGED sessionVars
    /\ pc = "wait"
    /\ inflight = NoEvent
    /\ nReacts < MaxReacts
    /\ \E e \in {"next_page", "close"} :
          inflight' = ReactionEvent(Invoker, base, e)
    /\ UNCHANGED <<pages, running, base, current, page_num_enabled,
                   paginating, pc, frame, ri, reaction, to_delete, sends,
                   edits, deleteRequests, attached, shown, err, closeRaised,
                   nReacts, nCloses, closed_delete>>

NextScenario ==
    \/ Run
    \/ SendReturns
    \/ AddReactionReturns
    \/ EditReturns
    \/ ScenarioReacts
    \/ ReactionDispatched
    \/ RemoveReturns
    \/ DeleteReturns

SpecScenario == Init /\ [][NextScenario]_vars

\* C11: with N >= 1 pages and n < N, after run() and n accepted next-page
\* reactions the transport has seen one send and n edits, the k-th edit
\* showing page k; after the stop reaction that follows, run() has
\* returned with one delete requested, the cursor at n and running false.
ScenarioOutcome ==
    LET n == IF reaction = "close" THEN nReacts - 1 ELSE nReacts
    IN (Len(pages) >= 1 /\ n < Len(pages))
       => /\ pc = "wait"
             => /\ sends = 1 /\ edits = n /\ deleteRequests = 0
                /\ shown = n /\ current = n
          /\ (reaction = "close" /\ pc \in {"done", "raised"})
             => /\ pc = "done"
                /\ sends = 1 /\ edits = n /\ deleteRequests = 1
                /\ current = n /\ ~running

\* C12: show_page with an invalid index changes nothing and calls nothing
\* on the transport: previous_page at cursor 0 and next_page at the last
\* index leave the cursor, running and the displayed message as they are
\* and issue no send, edit or add_reaction, and run() on a session with no
\* page sends nothing and returns with running false.
InvalidIndexIsNoOp ==
    [][ /\ (/\ pc = "remove" /\ pc' # "remove"
            /\ \/ reaction = "previous_page" /\ current = 0
               \/ reaction = "next_page" /\ current = Len(pages) - 1)
           => /\ UNCHANGED <<current, running, base, shown, pages, sends,
                             edits, attached, deleteRequests>>
              /\ pc' = IF running THEN "wait" ELSE "done"
        /\ (pc = "new" /\ pc' # "new" /\ Len(pages) = 0)
           => /\ UNCHANGED <<current, running, base, shown, pages, sends,
                             edits, attached, deleteRequests>>
              /\ pc' = "done"
              /\ ~running' ]_vars

\* C12 witness: the loop waits again after a next-page reaction on a
\* one-page session, with nothing edited.
NextAtLastIgnored ==
    /\ pc = "wait"
    /\ reaction = "next_page"
    /\ nReacts = 1
    /\ Len(pages) = 1
    /\ edits = 0
    /\ sends = 1

\* C13: a timeout of the outer wait is followed by one clear_reactions
\* call, and whether that call succeeds or raises run() then returns
\* normally: it never waits for a reaction again and never raises.
TimeoutEndsRun ==
    [][ /\ (pc = "wait" /\ inflight = NoEvent /\ pc' # "wait")
           => pc' = "clear"
        /\ (pc' = "clear" /\ pc # "clear") => pc = "wait"
        /\ (pc = "clear" /\ pc' # "clear") => (pc' = "done" /\ err' = "none")
        /\ pc = "done" => pc' = "done" ]_vars

\* C13 witness: run() has returned after a timeout whose clear_reactions
\* failed (the reactions are still attached).
ReturnedAfterFailedClear ==
    /\ pc = "done"
    /\ paginating = "False"
    /\ attached # <<>>

\* A glyph of the control map that the render did not attach to the
\* displayed message (first and last, when there were exactly two pages).
Hidden(e) ==
    /\ e \in Keys
    /\ \A i \in 1..Len(attached) : attached[i] # e

\* C14: a reaction by the invoker on the displayed message with an unmapped
\* glyph, or with a glyph hidden on first render, ends no wait, invokes no
\* navigation and leaves the cursor and the displayed message as they are.
HiddenGlyphIgnored ==
    [][ (/\ inflight.kind = "reaction"
         /\ inflight.user = Invoker
         /\ inflight.message = base
         /\ (inflight.emoji \notin Keys \/ Hidden(inflight.emoji)))
        => /\ pc' = "wait"
           /\ UNCHANGED <<current, running, base, shown, pages, sends,
                          edits, deleteRequests, reaction>> ]_vars

\* C14 as amended: such a reaction is ignored when its glyph is unmapped,
\* and ends the wait like any other control when its glyph is a key of the
\* control map, attached or hidden.
UnmappedIgnoredHiddenAccepted ==
    [][ (/\ inflight.kind = "reaction"
         /\ inflight.user = Invoker
         /\ inflight.message = base)
        => IF inflight.emoji \in Keys
           THEN pc' = "remove" /\ reaction' = inflight.emoji
           ELSE /\ pc' = "wait"
                /\ UNCHANGED <<current, running, base, shown, pages, sends,
                               edits, deleteRequests, reaction>> ]_vars

\* C14 witness: the first-page glyph, hidden on a two-page render, was
\* accepted and run() is about to call first_page.
HiddenGlyphTaken ==
    /\ pc = "remove"
    /\ reaction = "first_page"
    /\ Len(pages) = 2
    /\ Hidden("first_page")

\* The lists ask_for_page may hand to delete_messages: on timeout, after a
\* valid page, after an invalid page.
RecordedLists ==
    { <<"prompt", "took_too_long">>,
      <<"prompt", "reply">>,
      <<"prompt", "reply", "invalid_page">> }

\* C15: every path through the page-jump dialog that recorded a message
\* ends in one batch delete, requested after the delay and not before, of
\* exactly the messages the path recorded (prompt and timeout notice; prompt and reply; prompt, reply
\* and invalid-page notice), and the outcome of that delete leaves the
\* cursor and running as they are.
DialogCleanup ==
    [][ /\ (pc' = "ask_delete" /\ pc # "ask_delete")
           => (pc = "ask_sleep" /\ to_delete' \in RecordedLists)
        /\ (pc = "ask_took" /\ pc' = "ask_sleep")
           => to_delete' = <<"prompt", "took_too_long">>
        /\ (pc = "ask_invalid" /\ pc' = "ask_sleep")
           => to_delete' = <<"prompt", "reply", "invalid_page">>
        /\ (pc \in {"sp_edit", "sp_react"} /\ pc' = "ask_sleep")
           => to_delete' = <<"prompt", "reply">>
        /\ (pc = "ask_delete" /\ pc' # "ask_delete")
           => UNCHANGED <<current, running>>
        /\ (frame = "ask" /\ pc # "raised" /\ to_delete # <<>>
              /\ (frame' = "run" \/ pc' = "raised"))
           => pc = "ask_delete" ]_vars

\* The reactions mapped to a navigation action.
Navigation ==
    {"first_page", "previous_page", "next_page", "last_page", "ask_for_page"}

\* The index the navigation callback of glyph e passes to show_page.
Target(e) ==
    CASE e = "first_page" -> 0
      [] e = "previous_page" -> current - 1
      [] e = "next_page" -> current + 1
      [] e = "last_page" -> Len(pages) - 1

\* C16: when a navigation action (first, previous, next, last, page-jump)
\* has returned to the loop, the displayed message shows pages[cursor]:
\* the help page that was displayed before it is overwritten, from every
\* cursor position.
HelpOverwritten ==
    [][ (/\ pc \in {"remove", "sp_edit", "sp_react", "ask_delete"}
         /\ pc' \in {"wait", "done"}
         /\ reaction \in Navigation)
        => shown' = current' ]_vars

\* C16 as amended: with the help page displayed, a navigation action whose
\* target is a valid index moves the cursor there and renders that page,
\* and once the render returns the message shows pages[cursor]; previous
\* at 0, next at the last index and a jump to an invalid page leave the
\* help page displayed.
HelpOverwrittenByValidTarget ==
    [][ /\ (/\ shown = HelpPage
            /\ pc = "remove" /\ pc' # "remove"
            /\ reaction \in Navigation \ {"ask_for_page"})
           => IF 0 <= Target(reaction) /\ Target(reaction) < Len(pages)
              THEN /\ current' = Target(reaction)
                   /\ pc' \in {"sp_edit", "sp_send"}
              ELSE /\ shown' = HelpPage
                   /\ UNCHANGED <<current, edits, sends>>
                   /\ pc' \in {"wait", "done"}
        /\ (/\ shown = HelpPage
            /\ pc = "ask_wait"
            /\ inflight.kind = "message"
            /\ message_check(inflight)
            /\ int(inflight.content) # ValueError)
           => IF /\ 1 <= int(inflight.content)
                 /\ int(inflight.content) <= Len(pages)
              THEN /\ current' = int(inflight.content) - 1
                   /\ pc' \in {"sp_edit", "sp_send"}
              ELSE /\ shown' = HelpPage
                   /\ UNCHANGED <<current, edits, sends>>
                   /\ pc' = "ask_invalid"
        /\ (pc \in {"sp_edit", "sp_send"} /\ pc' \notin {pc, "raised"})
           => shown' = current' ]_vars

\* C16 witness: the help page is displayed and a next-page action has
\* issued the edit that replaces it.
HelpBeingOverwritten ==
    /\ shown = HelpPage
    /\ pc = "sp_edit"
    /\ reaction = "next_page"
    /\ current >= 1

\* A step in which show_page(index) passed valid_page and issued its render.
ShowPageRenders ==
    \/ pc' = "sp_edit" /\ edits' = edits + 1
    \/ pc' = "sp_send" /\ sends' = sends + 1

\* A step in which show_page returns to its caller without an exception.
ShowPageReturns ==
    /\ pc \in {"sp_edit", "sp_send", "sp_react"}
    /\ pc' \notin {"sp_edit", "sp_send", "sp_react", "raised"}

\* C17: with numbering enabled, when show_page has returned successfully
\* the footer of the displayed page reads cursor+1 / len(pages) for the
\* cursor and the page count of that moment; with numbering disabled no
\* footer is ever written.
FooterAfterShowPage ==
    [][ /\ (page_num_enabled /\ ShowPageReturns)
           => pages'[current' + 1] = <<current' + 1, Len(pages')>>
        /\ ~page_num_enabled => pages' = [i \in 1..Len(pages') |-> NoFooter]
      ]_vars

\* C17 as amended: with numbering enabled, show_page sets the footer of
\* pages[cursor] to cursor+1 / len(pages) with the page count at the moment
\* it writes, before the render call is issued; rendering an index whose
\* footer already reads so changes nothing; no other step changes a footer,
\* so when show_page returns the footer still reads what was written, which
\* is the current page count unless a page was added in between; with
\* numbering disabled no footer is ever written.
FooterAsWritten ==
    [][ /\ (page_num_enabled /\ ShowPageRenders)
           => /\ Len(pages') = Len(pages)
              /\ pages'[current' + 1] = <<current' + 1, Len(pages)>>
              /\ \A i \in 1..Len(pages) :
                    i # current' + 1 => pages'[i] = pages[i]
              /\ pages[current' + 1] = <<current' + 1, Len(pages)>>
                    => pages' = pages
        /\ ~ShowPageRenders
           => /\ Len(pages') >= Len(pages)
              /\ \A i \in 1..Len(pages) : pages'[i] = pages[i]
        /\ (page_num_enabled /\ ShowPageReturns)
           => /\ pages'[current' + 1][1] = current' + 1
              /\ pages'[current' + 1][2] <= Len(pages')
        /\ ~page_num_enabled => pages' = [i \in 1..Len(pages') |-> NoFooter]
      ]_vars

\* C17 witness: an edit of page 2 of 2 has returned, and the host has
\* added a third page since the footer was written.
StaleFooterDisplayed ==
    /\ page_num_enabled
    /\ pc = "wait"
    /\ edits >= 1
    /\ current = 1
    /\ shown = 1
    /\ pages[2] = <<2, 2>>
    /\ Len(pages) = 3

\* The timers of the three waits. wait_for's timeout runs from the start
\* of the wait whatever events are dropped meanwhile, so the timers are
\* strongly fair; asyncio.sleep(5) always ends.
Timers ==
    /\ SF_vars(WaitTimeout)
    /\ SF_vars(AskTimeout)
    /\ WF_vars(SleepReturns)

\* Every transport call completes (returns or raises), and an event
\* handed to wait_for is checked.
TransportCalls ==
    /\ WF_vars(SendReturns)
    /\ WF_vars(AddReactionReturns)
    /\ WF_vars(EditReturns)
    /\ WF_vars(ClearReturns)
    /\ WF_vars(RemoveReturns)
    /\ WF_vars(DeleteReturns)
    /\ WF_vars(HelpEditReturns)
    /\ WF_vars(PromptReturns)
    /\ WF_vars(TookReturns)
    /\ WF_vars(InvalidReturns)
    /\ WF_vars(BatchDeleteReturns)
    /\ WF_vars(ReactionDispatched)
    /\ WF_vars(MessageDispatched)

FairSpec == Init /\ [][Next]_vars /\ Timers /\ TransportCalls

\* C18: once run() has rendered its first page it eventually returns, the
\* reactions of the user being finitely many; and it returns only after a
\* timeout of the outer wait or after close has set running to false.
RunReturns ==
    /\ [][ (pc' = "done" /\ pc # "done" /\ sends' >= 1)
           => (paginating' = "False" \/ ~running') ]_vars
    /\ (pc \notin {"new", "done"}) ~> (pc = "done")

\* The variables of the session that run() drives.
runVars == <<pages, running, base, current, page_num_enabled, paginating, pc,
             frame, ri, reaction, to_delete, inflight, sends, edits,
             deleteRequests, attached, shown, err, closeRaised, nReacts,
             nCloses, closed_delete>>

\* self.pages of a constructed session: the contents of the list it holds.
PagesOf(s) == heap[pages_of[s]]

\* PaginatorSession(ctx) or PaginatorSession(ctx, pages=l): self.pages is
\* the list of the default argument, or the list l the host passes (each
\* host list is passed to one session; it is empty or holds one page).
Construct(s) ==
    /\ pages_of[s] = NotConstructed
    /\ \/ /\ pages_of' = [pages_of EXCEPT ![s] = DefaultList]
          /\ UNCHANGED heap
       \/ /\ pages_of' = [pages_of EXCEPT ![s] = s]
          /\ \E l \in {<<>>, <<"A">>} : heap' = [heap EXCEPT ![s] = l]
    /\ UNCHANGED runVars

\* s.add_page(embed) with an Embed: self.pages.append(embed)
SessionAddPage(s) ==
    /\ pages_of[s] # NotConstructed
    /\ Len(PagesOf(s)) < MaxPages
    /\ \E embed \in Embeds :
          heap' = [heap EXCEPT ![pages_of[s]] = Append(@, embed)]
    /\ UNCHANGED pages_of
    /\ UNCHANGED runVars

NextSessions ==
    \/ \E s \in Sessions : Construct(s)
    \/ \E s \in Sessions : SessionAddPage(s)

SpecSessions == Init /\ [][NextSessions]_vars

\* C19: every session has its own page sequence: no step (each add_page
\* is called on one session) changes the pages of two sessions, also when
\* both were constructed without the pages argument.
OwnPageSequence ==
    [][ \A s, t \in Sessions :
           (/\ s # t
            /\ pages_of[s] # NotConstructed
            /\ pages_of[t] # NotConstructed
            /\ PagesOf(s)' # PagesOf(s))
           => PagesOf(t)' = PagesOf(t) ]_vars

\* C20: in every reachable state running implies that the handle of the
\* displayed message is set, and no close() has dereferenced an unset
\* handle.
HandleSetWhileRunning ==
    /\ running => base # NoMessage
    /\ ~closeRaised

====
